---- MODULE Spec2Model ----
(***************************************************************************)
(* A model of the mouse-ray hover / drag plugin of src/src/hover.rs.       *)
(*                                                                         *)
(* Numbers.  The program computes in f32.  The model computes in exact     *)
(* integer arithmetic on a fixed-point grid:                               *)
(*   - a length is an integer number of world units / Unit, where          *)
(*     1 / Unit = 0.005 is the orthographic scale of src/src/main.rs, so   *)
(*     that one pixel of the window is one grid step;                      *)
(*   - a ray direction is an integer vector over the denominator DirDen,   *)
(*     so that the tilted camera (a 3-4-5 rotation) has an exact unit      *)
(*     forward vector;                                                     *)
(*   - a quotient is kept as a fraction [n, d] and compared by cross       *)
(*     multiplication, as the code's f * x with f = 1 / a compares;        *)
(*   - a translation whose x and z are non-finite f32 (NaN, +Inf, -Inf)    *)
(*     carries finite = FALSE, whichever of the three each of them is.     *)
(* Rounding of f32 is not modelled.                                        *)
(***************************************************************************)
EXTENDS Integers, Sequences, FiniteSets, TLC

(***************************************************************************)
(* Bounds of the model.                                                    *)
(***************************************************************************)
MaxTicks == 3
MaxCursorEvents == 2
MaxButtonEvents == 2
MaxHostTicks == 2
MaxFoldEvents == 3

(***************************************************************************)
(* Program constants.                                                      *)
(***************************************************************************)
\* 1 / epsilon, epsilon = 0.000_001                       (hover.rs:274)
EpsilonInv == 1000000
\* 1 / scale, scale = 0.005                               (main.rs:165)
Unit == 200
\* WindowResolution::new(640f32, 640f32)                  (main.rs:208)
WindowWidth == 640
WindowHeight == 640
\* the Pythagorean triple of the tilted camera's rotation; its hypotenuse is
\* the denominator of the direction vectors of the model's cameras
Tilt == [sin |-> 3, cos |-> 4, den |-> 5]

DirDen == Tilt.den

(***************************************************************************)
(* Vec3                                                                    *)
(***************************************************************************)
Vec3(a, b, c) == [x |-> a, y |-> b, z |-> c]

VSub(u, v) == Vec3(u.x - v.x, u.y - v.y, u.z - v.z)

VAdd(u, v) == Vec3(u.x + v.x, u.y + v.y, u.z + v.z)

VScale(k, v) == Vec3(k * v.x, k * v.y, k * v.z)

Dot(u, v) == u.x * v.x + u.y * v.y + u.z * v.z

\* mutant: a product that does not vanish on parallel vectors
Cross_NoMinus(u, v) == Vec3(u.y * v.z + u.z * v.y,
                            u.z * v.x + u.x * v.z,
                            u.x * v.y + u.y * v.x)

Cross(u, v) == Vec3(u.y * v.z - u.z * v.y,
                    u.z * v.x - u.x * v.z,
                    u.x * v.y - u.y * v.x)

\* an entity's translation; finite = FALSE when x and z are NaN or infinite
Translation(a, b, c) == [x |-> a, y |-> b, z |-> c, finite |-> TRUE]

NonFinite(b) == [x |-> 0, y |-> b, z |-> 0, finite |-> FALSE]

(***************************************************************************)
(* Fractions n / d with d # 0.                                             *)
(***************************************************************************)
Frac(n, d) == IF d < 0 THEN [n |-> 0 - n, d |-> 0 - d] ELSE [n |-> n, d |-> d]

\* p < q for fractions with positive denominators
FracLt(p, q) == p.n * q.d < q.n * p.d

FracAdd(p, q) == [n |-> p.n * q.d + q.n * p.d, d |-> p.d * q.d]

FracZero == [n |-> 0, d |-> 1]

FracOne == [n |-> 1, d |-> 1]

(***************************************************************************)
(* moller_trumbore: Some(t) is [hit |-> TRUE, t |-> fraction], the         *)
(* distance being DirDen * t grid steps; None is [hit |-> FALSE].          *)
(*                                                                         *)
(* With a direction dir / DirDen and lengths in grid steps, the code's     *)
(* a is  a_int / (DirDen * Unit^2)  and its t is                           *)
(* DirDen * e2q / (a_int * Unit)  (e2q = edge2 . q), so                    *)
(*   a < epsilon  iff  a_int * EpsA < 1,   EpsA = EpsilonInv/(DirDen*Unit^2)*)
(*   t > epsilon  iff  e2q * EpsT > a_int, EpsT = EpsilonInv*DirDen/Unit   *)
(* (for a_int > 0).  u and v are pure ratios and need no scaling.          *)
(***************************************************************************)
EpsA == EpsilonInv \div (DirDen * Unit * Unit)

EpsT == (EpsilonInv * DirDen) \div Unit

\* t.n / t.d > epsilon, t.d > 0, without overflowing t.n * EpsT:
\* for integers, n * EpsT > d  iff  n > d \div EpsT.
GtEpsilon(t) == t.n > (t.d \div EpsT)

NoHit == [hit |-> FALSE]

\* mutant: the final test t > epsilon is missing
moller_trumbore_NoDistanceTest(ray_origin, ray_direction, v0, v1, v2) ==
    LET edge1 == VSub(v1, v0)
        edge2 == VSub(v2, v0)
        h == Cross(ray_direction, edge2)
        a == Dot(edge1, h)
    IN  IF a * EpsA > -1 /\ a * EpsA < 1
        THEN NoHit
        ELSE LET s == VSub(ray_origin, v0)
                 u == Frac(Dot(s, h), a)
             IN  IF FracLt(u, FracZero) \/ FracLt(FracOne, u)
                 THEN NoHit
                 ELSE LET q == Cross(s, edge1)
                          v == Frac(Dot(ray_direction, q), a)
                      IN  IF FracLt(v, FracZero) \/ FracLt(FracOne, FracAdd(u, v))
                          THEN NoHit
                          ELSE [hit |-> TRUE, t |-> Frac(Dot(edge2, q), a)]

\* mutant: a ray parallel to the triangle hits it at distance 0
moller_trumbore_ParallelHits(ray_origin, ray_direction, v0, v1, v2) ==
    LET edge1 == VSub(v1, v0)
        edge2 == VSub(v2, v0)
        h == Cross(ray_direction, edge2)
        a == Dot(edge1, h)
    IN  IF a * EpsA > -1 /\ a * EpsA < 1
        THEN [hit |-> TRUE, t |-> FracZero]
        ELSE LET s == VSub(ray_origin, v0)
                 u == Frac(Dot(s, h), a)
             IN  IF FracLt(u, FracZero) \/ FracLt(FracOne, u)
                 THEN NoHit
                 ELSE LET q == Cross(s, edge1)
                          v == Frac(Dot(ray_direction, q), a)
                      IN  IF FracLt(v, FracZero) \/ FracLt(FracOne, FracAdd(u, v))
                          THEN NoHit
                          ELSE LET t == Frac(Dot(edge2, q), a)
                               IN  IF GtEpsilon(t)
                                   THEN [hit |-> TRUE, t |-> t]
                                   ELSE NoHit

moller_trumbore(ray_origin, ray_direction, v0, v1, v2) ==
    LET edge1 == VSub(v1, v0)
        edge2 == VSub(v2, v0)
        h == Cross(ray_direction, edge2)
        a == Dot(edge1, h)
    IN  IF a * EpsA > -1 /\ a * EpsA < 1
        THEN NoHit
        ELSE LET s == VSub(ray_origin, v0)
                 u == Frac(Dot(s, h), a)
             IN  IF FracLt(u, FracZero) \/ FracLt(FracOne, u)
                 THEN NoHit
                 ELSE LET q == Cross(s, edge1)
                          v == Frac(Dot(ray_direction, q), a)
                      IN  IF FracLt(v, FracZero) \/ FracLt(FracOne, FracAdd(u, v))
                          THEN NoHit
                          ELSE LET t == Frac(Dot(edge2, q), a)
                               IN  IF GtEpsilon(t)
                                   THEN [hit |-> TRUE, t |-> t]
                                   ELSE NoHit

(***************************************************************************)
(* MouseRay::cursor_to_pos: the cursor's pixel position in [-1, 1] x       *)
(* [-1, 1], each coordinate a fraction.                                    *)
(***************************************************************************)
FracMulInt(p, k) == [n |-> p.n * k, d |-> p.d]

FracSubInt(p, k) == [n |-> p.n - k * p.d, d |-> p.d]

IntSubFrac(k, p) == [n |-> k * p.d - p.n, d |-> p.d]

Window == [width |-> WindowWidth, height |-> WindowHeight]

\* mutant: y is not flipped
cursor_to_pos_NoFlip(position, window) ==
    [x |-> FracSubInt(FracMulInt(Frac(position.x, window.width), 2), 1),
     y |-> FracSubInt(FracMulInt(Frac(position.y, window.height), 2), 1)]

cursor_to_pos(position, window) ==
    [x |-> FracSubInt(FracMulInt(Frac(position.x, window.width), 2), 1),
     y |-> IntSubFrac(1, FracMulInt(Frac(position.y, window.height), 2))]

(***************************************************************************)
(* Cameras.  A camera is its GlobalTransform: a translation in grid steps  *)
(* and the three basis columns of its rotation, over DirDen.  Both         *)
(* applications of the repository use an orthographic projection whose     *)
(* area is the window scaled by 1 / Unit, which is the projection          *)
(* modelled here; its inverse maps (x, y) of [-1, 1]^2 to                  *)
(* (x * width / 2, y * height / 2) grid steps.                             *)
(***************************************************************************)
\* Transform::from_xyz(0.0, 0.0, 3.0), looking along -z       (main.rs:162)
CamFront == [translation |-> Vec3(0, 0, 3 * Unit),
             x_axis |-> Vec3(DirDen, 0, 0),
             y_axis |-> Vec3(0, DirDen, 0),
             z_axis |-> Vec3(0, 0, DirDen)]

\* the same camera rotated about x by -asin(3/5) around the scene's origin
CamTilt == [translation |-> Vec3(0, Tilt.sin * Unit, Tilt.cos * Unit),
            x_axis |-> Vec3(DirDen, 0, 0),
            y_axis |-> Vec3(0, Tilt.cos, 0 - Tilt.sin),
            z_axis |-> Vec3(0, Tilt.sin, Tilt.cos)]

\* a camera above the scene's origin that looks straight down, its up
\* vector along -z
CamDown == [translation |-> Vec3(0, DirDen * Unit, 0),
            x_axis |-> Vec3(DirDen, 0, 0),
            y_axis |-> Vec3(0, 0, 0 - DirDen),
            z_axis |-> Vec3(0, DirDen, 0)]

Cameras == {CamTilt}

\* camera.projection_matrix().inverse().transform_point3(clip_space_pos)
inverse_projection(clip) ==
    Vec3((clip.x.n * Window.width) \div (clip.x.d * 2),
         (clip.y.n * Window.height) \div (clip.y.d * 2),
         0)

\* the Projection::Orthographic arm of MouseRay::pos_from_camera
pos_from_camera(cam, cursor_pos) ==
    LET eye_space_pos == inverse_projection(cursor_pos)
        world_space_pos ==
            Vec3(cam.translation.x
                   + (eye_space_pos.x * cam.x_axis.x + eye_space_pos.y * cam.y_axis.x) \div DirDen,
                 cam.translation.y
                   + (eye_space_pos.x * cam.x_axis.y + eye_space_pos.y * cam.y_axis.y) \div DirDen,
                 cam.translation.z
                   + (eye_space_pos.x * cam.x_axis.z + eye_space_pos.y * cam.y_axis.z) \div DirDen)
    IN  [origin |-> world_space_pos, direction |-> VScale(-1, cam.z_axis)]

\* Ray::default(), the ray of MouseRay::default()
DefaultRay == [origin |-> Vec3(0, 0, 0), direction |-> Vec3(0, 0, 0)]

(***************************************************************************)
(* Meshes and check_intersect.  A mesh is its position attribute           *)
(* (float32x3 = FALSE when the attribute is missing or of another type)    *)
(* and its index buffer, of width "U32" or "U16", or "None" when the mesh  *)
(* has no index buffer.  An entity's GlobalTransform is a translation.     *)
(***************************************************************************)
\* |x as u32| of a u16 index
WidenU16(x) == x

Indices(mesh) ==
    IF mesh.width = "U16"
    THEN [i \in DOMAIN mesh.indices |-> WidenU16(mesh.indices[i])]
    ELSE mesh.indices

\* mat.transform_point3(v), for a finite translation
transform_point3(translation, v) ==
    Vec3(v.x + translation.x, v.y + translation.y, v.z + translation.z)

\* vertex_positions[tri[i] as usize] is out of bounds for an index of the
\* k-th chunk of three: the indexing panics
IndexPanics(vertex_positions, indices, k) ==
    \E i \in (3 * k - 2)..(3 * k) : indices[i] >= Len(vertex_positions)

\* one iteration of inner_fn's loop, on the k-th chunk of three indices
TriangleHit(ray, vertex_positions, indices, translation, k) ==
    LET v0 == transform_point3(translation, vertex_positions[indices[3 * k - 2] + 1])
        v1 == transform_point3(translation, vertex_positions[indices[3 * k - 1] + 1])
        v2 == transform_point3(translation, vertex_positions[indices[3 * k] + 1])
    IN  \* Under a non-finite translation every vertex has a non-finite x and
        \* z, so both edges have NaN x and z, a is NaN, the parallel test
        \* fails and u is NaN, which is not in 0.0..=1.0: None.
        IF translation.finite
        THEN moller_trumbore(ray.origin, ray.direction, v0, v1, v2)
        ELSE NoHit

\* inner_fn returns at the first chunk that is hit: true when a chunk is hit
\* and no chunk before it panics
check_intersect(ray, mesh, translation) ==
    IF ~mesh.float32x3 THEN FALSE
    ELSE IF mesh.width = "None" THEN FALSE
    ELSE \E k \in 1..(Len(mesh.indices) \div 3) :
            /\ \A j \in 1..k : ~IndexPanics(mesh.positions, Indices(mesh), j)
            /\ TriangleHit(ray, mesh.positions, Indices(mesh), translation, k).hit

\* inner_fn reaches a chunk whose indexing panics: no chunk before it is hit
check_intersect_panics(ray, mesh, translation) ==
    /\ mesh.float32x3
    /\ mesh.width # "None"
    /\ \E k \in 1..(Len(mesh.indices) \div 3) :
          /\ IndexPanics(mesh.positions, Indices(mesh), k)
          /\ \A j \in 1..(k - 1) :
                /\ ~IndexPanics(mesh.positions, Indices(mesh), j)
                /\ ~TriangleHit(ray, mesh.positions, Indices(mesh), translation, j).hit

(***************************************************************************)
(* The scene: three hoverable entities, each with its own mesh asset.      *)
(*   entity 1: a small triangle at the origin, draggable;                  *)
(*   entity 2: a large triangle behind entities 1 and 3;                   *)
(*   entity 3: a small triangle right of entity 1, with a u16 index buffer *)
(*             and an asset that may be unloaded.                          *)
(* The cursor is at the window's centre (its ray meets entities 1 and 2),  *)
(* 16 pixels right of it (entities 3 and 2) or 24 pixels right (nothing).  *)
(***************************************************************************)
Entity == {1, 2, 3}

Hoverable == {1, 2, 3}

Draggable == {1}

\* entities whose mesh asset can be unloaded (Assets::get gives None)
Unstable == {3}

SmallTriangle == << Vec3(-3, -3, 0), Vec3(3, -3, 0), Vec3(0, 3, 0) >>

LargeTriangle == << Vec3(-6, -12, 0), Vec3(20, -12, 0), Vec3(4, 12, 0) >>

MeshOf ==
    [e \in Entity |->
        CASE e = 1 -> [float32x3 |-> TRUE, positions |-> SmallTriangle,
                       width |-> "U32", indices |-> << 0, 1, 2 >>]
          [] e = 2 -> [float32x3 |-> TRUE, positions |-> LargeTriangle,
                       width |-> "U32", indices |-> << 0, 1, 2 >>]
          [] e = 3 -> [float32x3 |-> TRUE, positions |-> SmallTriangle,
                       width |-> "U16", indices |-> << 0, 1, 2 >>]]

InitTranslation ==
    [e \in Entity |->
        CASE e = 1 -> Translation(0, 0, 0)
          [] e = 2 -> Translation(0, 0, -8)
          [] e = 3 -> Translation(16, 0, 0)]

\* pixel positions of the cursor: on the window's centre line
CursorPositions ==
    { [x |-> WindowWidth \div 2 + dx, y |-> WindowHeight \div 2] : dx \in {0, 16, 24} }

(***************************************************************************)
(* drag_system's body for one dragged entity: the new Transform            *)
(* translation.  A zero direction.y divides by zero: t is NaN or infinite, *)
(* and so are both coordinates computed from it.                           *)
(***************************************************************************)
\* mutant: the update also writes y, from the ray's origin
drag_translation_MovesY(ray, translation, start_pos) ==
    LET plane_y == start_pos.y
        dir == ray.direction
    IN  IF dir.x * dir.x + dir.z * dir.z > 0
        THEN IF dir.y = 0 \/ ~start_pos.finite
             THEN NonFinite(ray.origin.y)
             ELSE LET t == Frac(plane_y - ray.origin.y, dir.y)
                  IN  [x |-> ray.origin.x + (dir.x * t.n) \div t.d, y |-> ray.origin.y,
                       z |-> ray.origin.z + (dir.z * t.n) \div t.d, finite |-> TRUE]
        ELSE translation

drag_translation(ray, translation, start_pos) ==
    LET plane_y == start_pos.y
        dir == ray.direction
    IN  IF dir.x * dir.x + dir.z * dir.z > 0
        THEN IF dir.y = 0 \/ ~start_pos.finite
             THEN NonFinite(translation.y)
             ELSE LET t == Frac(plane_y - ray.origin.y, dir.y)
                      intersection_point ==
                          Vec3(ray.origin.x + (dir.x * t.n) \div t.d,
                               ray.origin.y + (dir.y * t.n) \div t.d,
                               ray.origin.z + (dir.z * t.n) \div t.d)
                      offset == Vec3(intersection_point.x - start_pos.x, 0,
                                     intersection_point.z - start_pos.z)
                  IN  [x |-> start_pos.x + offset.x, y |-> translation.y,
                       z |-> start_pos.z + offset.z, finite |-> TRUE]
        ELSE translation

(***************************************************************************)
(* Input<MouseButton>: press and release as bevy_input folds the window's  *)
(* button events of one frame.                                             *)
(***************************************************************************)
RECURSIVE FoldButtons(_, _)
FoldButtons(input, events) ==
    IF events = << >> THEN input
    ELSE LET ev == Head(events)
             next ==
                 IF ev = "Pressed"
                 THEN IF input.pressed THEN input
                      ELSE [input EXCEPT !.pressed = TRUE, !.just_pressed = TRUE]
                 ELSE IF input.pressed
                      THEN [input EXCEPT !.pressed = FALSE, !.just_released = TRUE]
                      ELSE input
         IN  FoldButtons(next, Tail(events))

SeqsUpTo(S, n) == UNION { [1..k -> S] : k \in 0..n }

\* every order in which a query may yield the entities of S
Orders(S) == { o \in [1..Cardinality(S) -> S] : \A i, j \in DOMAIN o : o[i] = o[j] => i = j }

(***************************************************************************)
(* State                                                                   *)
(***************************************************************************)
VARIABLES
    phase,                 \* "idle" between ticks, "update" inside the Update schedule,
                           \* "aborted" once a system has panicked
    ran,                   \* the systems of the plugin that have run in this tick
    tick,                  \* ticks completed
    camera,                \* the camera's GlobalTransform
    camera_count,          \* the number of entities camera_query matches
    last_cursor,           \* history: << the position of the last CursorMoved read >>
    mesh_assets,           \* entity -> the Mesh its Handle<Mesh> names
    mouse_button_input,    \* Res<Input<MouseButton>> for MouseButton::Left
    loaded,                \* entities whose mesh asset Assets<Mesh>::get finds
    ray,                   \* MouseRay.ray of the one MouseRay entity
    ray_before,            \* history: MouseRay.ray when this tick began
    hover,                 \* entities with the Hover component
    dragged,               \* entity with a Dragged component -> its start_pos
    transform,             \* entity -> Transform.translation
    global_transform,      \* entity -> GlobalTransform translation
    commands,              \* the Commands queued in this tick, not yet applied
    log,                   \* every HoverStart / HoverEnd sent, in order of sending
    tick_start,            \* Len(log) when this tick began
    call,                  \* a call of one function on its own: its name and arguments
    result                 \* << >> until the call returns, then << the value returned >>

vars == << phase, ran, tick, camera, camera_count, last_cursor, mesh_assets, mouse_button_input, loaded, ray, ray_before, hover, dragged, transform, global_transform, commands, log, tick_start, call, result >>

Systems == { "update_mouse_ray", "update_hover_start", "update_hover_end",
             "update_drag_start", "update_drag_end", "drag_system" }

HoverStart(e) == [type |-> "HoverStart", hovered |-> e]

HoverEnd(e) == [type |-> "HoverEnd", hovered |-> e]

NoCommands == [insert_hover |-> {}, remove_hover |-> {},
               insert_dragged |-> {}, remove_dragged |-> {}]

NoInput == [pressed |-> FALSE, just_pressed |-> FALSE, just_released |-> FALSE]

NoCall == [fn |-> "none"]

\* the state after the Startup schedule
Startup ==
    /\ phase = "idle"
    /\ ran = {}
    /\ tick = 0
    /\ camera \in Cameras
    /\ camera_count = 1
    /\ last_cursor = << >>
    /\ mesh_assets = MeshOf
    /\ mouse_button_input = NoInput
    /\ loaded \in { Entity \ u : u \in SUBSET Unstable }
    /\ ray = DefaultRay
    /\ ray_before = DefaultRay
    /\ hover = {}
    /\ dragged = << >>
    /\ transform = InitTranslation
    /\ global_transform = InitTranslation
    /\ commands = NoCommands
    /\ log = << >>
    /\ tick_start = 0

Init ==
    /\ Startup
    /\ call = NoCall
    /\ result = << >>

(***************************************************************************)
(* The host: between two runs of the Update schedule it delivers the       *)
(* frame's input events and may load or unload a mesh asset.               *)
(***************************************************************************)
BeginTick ==
    /\ phase = "idle"
    /\ tick < MaxTicks
    /\ phase' = "update"
    /\ ran' = {}
    /\ ray_before' = ray
    /\ \E events \in SeqsUpTo({"Pressed", "Released"}, MaxButtonEvents) :
          mouse_button_input' =
              FoldButtons([mouse_button_input EXCEPT !.just_pressed = FALSE,
                                                     !.just_released = FALSE], events)
    /\ loaded' \in { (loaded \ Unstable) \cup u : u \in SUBSET Unstable }
    /\ tick_start' = Len(log)
    /\ UNCHANGED << tick, camera, camera_count, last_cursor, mesh_assets, ray, hover,
                    dragged, transform, global_transform, commands, log, call, result >>

Runs(system) ==
    /\ phase = "update"
    /\ system \notin ran
    /\ ran' = ran \cup {system}
    /\ UNCHANGED << phase, tick, camera, camera_count, mesh_assets, mouse_button_input,
                    loaded, ray_before, tick_start, call, result >>

\* a panic inside a system: the process aborts in the middle of the schedule
Panics(system) ==
    /\ phase = "update"
    /\ system \notin ran
    /\ phase' = "aborted"
    /\ UNCHANGED << ran, tick, camera, camera_count, last_cursor, mesh_assets,
                    mouse_button_input, loaded, ray, ray_before, hover, dragged,
                    transform, global_transform, commands, log, tick_start, call,
                    result >>

(***************************************************************************)
(* update_mouse_ray: one window and one MouseRay exist, so the body runs;  *)
(* every CursorMoved event overwrites the ray.  camera_query.single()      *)
(* panics unless exactly one entity matches the query; it is called once   *)
(* per event, so without events the number of cameras does not matter.     *)
(***************************************************************************)
\* mutant: the loop keeps the ray of the first event
FoldCursorMoved_FirstWins(mouse_ray, cam, events) ==
    IF events = << >> THEN mouse_ray
    ELSE pos_from_camera(cam, cursor_to_pos(Head(events), Window))

RECURSIVE FoldCursorMoved(_, _, _)
FoldCursorMoved(mouse_ray, cam, events) ==
    IF events = << >> THEN mouse_ray
    ELSE LET cursor_pos == cursor_to_pos(Head(events), Window)
         IN  FoldCursorMoved(pos_from_camera(cam, cursor_pos), cam, Tail(events))

update_mouse_ray ==
    \E cursor_moved_events \in SeqsUpTo(CursorPositions, MaxCursorEvents) :
        IF cursor_moved_events # << >> /\ camera_count # 1
        THEN Panics("update_mouse_ray")
        ELSE /\ Runs("update_mouse_ray")
             /\ ray' = FoldCursorMoved(ray, camera, cursor_moved_events)
             /\ last_cursor' =
                   IF cursor_moved_events = << >> THEN last_cursor
                   ELSE << cursor_moved_events[Len(cursor_moved_events)] >>
             /\ UNCHANGED << hover, dragged, transform, global_transform, commands, log >>

(***************************************************************************)
(* update_hover_start and update_hover_end.  The Hover components they     *)
(* insert and remove are Commands: applied when the schedule ends.         *)
(***************************************************************************)
\* mutant: the query without its Without<Hover> filter
HoverStartQuery_NoWithout == Hoverable

\* Query<(&Handle<Mesh>, &GlobalTransform, &Hoverable, Entity), Without<Hover>>
HoverStartQuery == Hoverable \ hover

\* mutant: the query without its With<Hover> filter
HoverEndQuery_NoWith == Entity

\* Query<(&Handle<Mesh>, &GlobalTransform, Entity), With<Hover>>
HoverEndQuery == hover

\* mesh_assets.get(mesh_handle) is Some(mesh) and check_intersect(ray, mesh, transform)
Intersects(r, e) == e \in loaded /\ check_intersect(r, mesh_assets[e], global_transform[e])

\* mutant: update_hover_end's test without its negation
Misses_NoNegation(r, e) == e \in loaded /\ check_intersect(r, mesh_assets[e], global_transform[e])

\* mesh_assets.get(mesh_handle) is Some(mesh) and !check_intersect(ray, mesh, transform)
Misses(r, e) == e \in loaded /\ ~check_intersect(r, mesh_assets[e], global_transform[e])

\* mesh_assets.get(mesh_handle) is Some(mesh) and check_intersect panics on it
IntersectPanics(r, e) ==
    e \in loaded /\ check_intersect_panics(r, mesh_assets[e], global_transform[e])

update_hover_start ==
    IF \E e \in HoverStartQuery : IntersectPanics(ray, e)
    THEN Panics("update_hover_start")
    ELSE /\ Runs("update_hover_start")
         /\ LET entered == { e \in HoverStartQuery : Intersects(ray, e) }
            IN  /\ commands' = [commands EXCEPT !.insert_hover = entered]
                /\ \E order \in Orders(entered) :
                      log' = log \o [i \in DOMAIN order |-> HoverStart(order[i])]
         /\ UNCHANGED << last_cursor, ray, hover, dragged, transform, global_transform >>

update_hover_end ==
    IF \E e \in HoverEndQuery : IntersectPanics(ray, e)
    THEN Panics("update_hover_end")
    ELSE /\ Runs("update_hover_end")
         /\ LET left == { e \in HoverEndQuery : Misses(ray, e) }
            IN  /\ commands' = [commands EXCEPT !.remove_hover = left]
                /\ \E order \in Orders(left) :
                      log' = log \o [i \in DOMAIN order |-> HoverEnd(order[i])]
         /\ UNCHANGED << last_cursor, ray, hover, dragged, transform, global_transform >>

(***************************************************************************)
(* update_drag_start, update_drag_end, drag_system                         *)
(***************************************************************************)
\* Query<(Entity, &Transform), (With<Hover>, With<Draggable>)>
DragStartQuery == hover \cap Draggable

update_drag_start ==
    /\ Runs("update_drag_start")
    /\ commands' =
          [commands EXCEPT !.insert_dragged =
              IF mouse_button_input.just_pressed
              THEN { [entity |-> e, start_pos |-> transform[e]] : e \in DragStartQuery }
              ELSE {}]
    /\ UNCHANGED << last_cursor, ray, hover, dragged, transform, global_transform, log >>

update_drag_end ==
    /\ Runs("update_drag_end")
    /\ commands' =
          [commands EXCEPT !.remove_dragged =
              IF mouse_button_input.just_released THEN DOMAIN dragged ELSE {}]
    /\ UNCHANGED << last_cursor, ray, hover, dragged, transform, global_transform, log >>

drag_system ==
    /\ Runs("drag_system")
    /\ transform' =
          [e \in Entity |->
              IF e \in DOMAIN dragged
              THEN drag_translation(ray, transform[e], dragged[e])
              ELSE transform[e]]
    /\ UNCHANGED << last_cursor, ray, hover, dragged, global_transform, commands, log >>

(***************************************************************************)
(* The end of the tick: the schedule applies the queued Commands, one      *)
(* system's buffer after another; PostUpdate then propagates Transform to  *)
(* GlobalTransform.  Only update_drag_start and update_drag_end can queue  *)
(* commands that do not commute (insert and remove Dragged on one entity), *)
(* and no ordering between the two systems is declared.                    *)
(***************************************************************************)
InsertDragged(d, inserts) ==
    [e \in DOMAIN d \cup { c.entity : c \in inserts } |->
        IF \E c \in inserts : c.entity = e
        THEN (CHOOSE c \in inserts : c.entity = e).start_pos
        ELSE d[e]]

RemoveDragged(d, removes) == [e \in DOMAIN d \ removes |-> d[e]]

ApplyDeferred ==
    /\ phase = "update"
    /\ ran = Systems
    /\ phase' = "idle"
    /\ tick' = tick + 1
    /\ hover' = (hover \cup commands.insert_hover) \ commands.remove_hover
    /\ \/ dragged' = RemoveDragged(InsertDragged(dragged, commands.insert_dragged),
                                   commands.remove_dragged)
       \/ dragged' = InsertDragged(RemoveDragged(dragged, commands.remove_dragged),
                                   commands.insert_dragged)
    /\ global_transform' = transform
    /\ commands' = NoCommands
    /\ UNCHANGED << ran, camera, camera_count, last_cursor, mesh_assets,
                    mouse_button_input, loaded, ray, ray_before, transform, log,
                    tick_start, call, result >>

Next ==
    \/ BeginTick
    \/ update_mouse_ray
    \/ update_hover_start
    \/ update_hover_end
    \/ update_drag_start
    \/ update_drag_end
    \/ drag_system
    \/ ApplyDeferred

Spec == Init /\ [][Next]_vars

(***************************************************************************)
(* A second host: an application that delivers no button input, but moves  *)
(* its camera, spawns and despawns cameras and replaces mesh assets        *)
(* between two runs of the Update schedule.  A replaced mesh has lost its  *)
(* position attribute or its index buffer, or has an index that points     *)
(* past the end of its positions.                                          *)
(***************************************************************************)
HostCameras == {CamTilt, CamFront}

CameraCounts == 0..2

MeshVariants(mesh) ==
    { mesh,
      [mesh EXCEPT !.float32x3 = FALSE],
      [mesh EXCEPT !.width = "None"],
      [mesh EXCEPT !.indices = << 0, 1, Len(mesh.positions) >>] }

HostTick ==
    /\ phase = "idle"
    /\ tick < MaxHostTicks
    /\ phase' = "update"
    /\ ran' = {}
    /\ ray_before' = ray
    /\ camera' \in HostCameras
    /\ camera_count' \in CameraCounts
    /\ \E e \in Unstable : \E mesh \in MeshVariants(MeshOf[e]) :
          mesh_assets' = [mesh_assets EXCEPT ![e] = mesh]
    /\ loaded' \in { (loaded \ Unstable) \cup u : u \in SUBSET Unstable }
    /\ tick_start' = Len(log)
    /\ UNCHANGED << tick, last_cursor, mouse_button_input, ray, hover, dragged,
                    transform, global_transform, commands, log, call, result >>

HostNext ==
    \/ HostTick
    \/ update_mouse_ray
    \/ update_hover_start
    \/ update_hover_end
    \/ update_drag_start
    \/ update_drag_end
    \/ drag_system
    \/ ApplyDeferred

HostSpec == Init /\ [][HostNext]_vars

(***************************************************************************)
(* The functions of the plugin, each called on its own: the initial state  *)
(* holds the call's arguments, the one step of the behaviour evaluates the *)
(* function and stores what it returns.                                    *)
(***************************************************************************)
system_vars == << phase, ran, tick, camera, camera_count, last_cursor, mesh_assets, mouse_button_input, loaded, ray, ray_before, hover, dragged, transform, global_transform, commands, log, tick_start >>

Returns(fn, value) ==
    /\ call.fn = fn
    /\ result = << >>
    /\ result' = << value >>
    /\ UNCHANGED << call, system_vars >>

Returned(fn) == call.fn = fn /\ result # << >>

\* the loop of update_mouse_ray over the CursorMoved events of one tick
FoldCalls ==
    { [fn |-> "FoldCursorMoved", mouse_ray |-> r, cam |-> c, events |-> evs] :
        r \in {DefaultRay, pos_from_camera(CamFront, cursor_to_pos([x |-> 0, y |-> 0], Window))},
        c \in HostCameras,
        evs \in SeqsUpTo(CursorPositions, MaxFoldEvents) }

CallFoldCursorMoved ==
    Returns("FoldCursorMoved", FoldCursorMoved(call.mouse_ray, call.cam, call.events))

\* the body of drag_system for one dragged entity: the stored ray is the
\* default ray or the ray of a camera and a cursor position, the entity was
\* picked up at start_pos and is at translation
DragRays ==
    {DefaultRay} \cup
    { pos_from_camera(c, cursor_to_pos([x |-> WindowWidth \div 2 + dx,
                                        y |-> WindowHeight \div 2 + dy], Window)) :
        c \in {CamFront, CamTilt, CamDown}, dx \in {0, 16, 24}, dy \in {0, 15} }

DragCalls ==
    { [fn |-> "drag_translation", ray |-> r, translation |-> tr, start_pos |-> sp] :
        r \in DragRays,
        sp \in {Translation(0, 0, 0), Translation(16, 3, 0), Translation(200, 0, 200)},
        tr \in {Translation(0, 0, 0), Translation(8, 3, 8)} }

\* moller_trumbore on its own: rays from seven origins along six directions
\* (one of them zero), against two triangles and four degenerate ones
MtOrigins ==
    { Vec3(1, 1, 4), Vec3(1, 1, -4), Vec3(1, 1, 0), Vec3(-2, 1, 0), Vec3(4, 4, 4),
      Vec3(0, 0, 4), Vec3(1, 4, 4) }

MtDirections ==
    { Vec3(0, 0, 0 - DirDen), Vec3(0, 0, DirDen), Vec3(DirDen, 0, 0),
      Vec3(0, 0 - Tilt.sin, 0 - Tilt.cos), Vec3(0, Tilt.sin, Tilt.cos), Vec3(0, 0, 0) }

MtTriangles ==
    { << Vec3(0, 0, 0), Vec3(4, 0, 0), Vec3(0, 4, 0) >>,
      << Vec3(0, 0, 0), Vec3(0, 4, 0), Vec3(4, 0, 0) >>,
      << Vec3(1, 1, 0), Vec3(1, 1, 0), Vec3(1, 1, 0) >>,
      << Vec3(0, 0, 0), Vec3(0, 0, 0), Vec3(2, 2, 0) >>,
      << Vec3(0, 0, 0), Vec3(2, 2, 0), Vec3(2, 2, 0) >>,
      << Vec3(0, 0, 0), Vec3(1, 1, 0), Vec3(2, 2, 0) >> }

MtCalls ==
    { [fn |-> "moller_trumbore", ray_origin |-> o, ray_direction |-> d,
       v0 |-> tri[1], v1 |-> tri[2], v2 |-> tri[3]] :
        o \in MtOrigins, d \in MtDirections, tri \in MtTriangles }

CallMollerTrumbore ==
    Returns("moller_trumbore",
            moller_trumbore(call.ray_origin, call.ray_direction, call.v0, call.v1, call.v2))

\* cursor_to_pos on its own: the pixels of a 9 x 9 lattice over the window,
\* its edges included, for the repository's window and a wider one
Windows == {Window, [width |-> 800, height |-> 600]}

CursorCalls ==
    { [fn |-> "cursor_to_pos",
       position |-> [x |-> (kx * w.width) \div 8, y |-> (ky * w.height) \div 8],
       window |-> w] :
        kx \in 0..8, ky \in 0..8, w \in Windows }

CallCursorToPos ==
    Returns("cursor_to_pos", cursor_to_pos(call.position, call.window))

CallDragTranslation ==
    Returns("drag_translation", drag_translation(call.ray, call.translation, call.start_pos))

FnInit ==
    /\ Startup
    /\ loaded = Entity
    /\ result = << >>
    /\ \/ call \in FoldCalls
       \/ call \in DragCalls
       \/ call \in MtCalls
       \/ call \in CursorCalls

FnNext ==
    \/ CallFoldCursorMoved
    \/ CallDragTranslation
    \/ CallMollerTrumbore
    \/ CallCursorToPos

FnSpec == FnInit /\ [][FnNext]_vars

(***************************************************************************)
(* Vocabulary of the claims.                                               *)
(***************************************************************************)
\* the events sent in the current tick (the last tick, between two ticks)
TickEvents == SubSeq(log, tick_start + 1, Len(log))

Sent(ev) == \E i \in DOMAIN TickEvents : TickEvents[i] = ev

IndexOf(ev) == CHOOSE i \in DOMAIN TickEvents : TickEvents[i] = ev

Count(type) == Cardinality({ i \in DOMAIN TickEvents : TickEvents[i].type = type })

CountOf(ev) == Cardinality({ i \in DOMAIN TickEvents : TickEvents[i] = ev })

\* every system of the tick has run; its Commands are still queued, so hover
\* is the set of hovered entities before the tick and ray is the tick's ray
TickDone == phase = "update" /\ ran = Systems

\* the step that ends a tick: the primed state is the state after the tick
TickEnds == TickDone /\ phase' = "idle"

\* the least distance (as moller_trumbore's t) at which r meets e's mesh
HitDistances(r, e) ==
    { TriangleHit(r, mesh_assets[e].positions, Indices(mesh_assets[e]), global_transform[e], k).t :
        k \in { j \in 1..(Len(mesh_assets[e].indices) \div 3) :
                  TriangleHit(r, mesh_assets[e].positions, Indices(mesh_assets[e]),
                              global_transform[e], j).hit } }

Nearer(r, e1, e2) ==
    \E d1 \in HitDistances(r, e1) : \A d2 \in HitDistances(r, e2) : FracLt(d1, d2)

NothingHit(r) == \A e \in Hoverable : ~Intersects(r, e)

(***************************************************************************)
(* C1: at most one entity is hovered at a time.                            *)
(***************************************************************************)
C1_SingleHover == Cardinality(hover) <= 1

(***************************************************************************)
(* C2: the event log never contains two HoverStart(e) without a            *)
(* HoverEnd(e) between them.                                               *)
(***************************************************************************)
C2_NoDoubleHoverStart ==
    \A i, j \in DOMAIN log :
        (i < j /\ log[i].type = "HoverStart" /\ log[j] = log[i])
            => \E k \in (i + 1)..(j - 1) : log[k] = HoverEnd(log[i].hovered)

\* an entity was hovered, left and hovered again
C2_Witness ==
    \E e \in Entity : \E i, k, j \in DOMAIN log :
        i < k /\ k < j /\ log[i] = HoverStart(e) /\ log[k] = HoverEnd(e)
                       /\ log[j] = HoverStart(e)

(***************************************************************************)
(* C3: a HoverEnd(e) is sent only when an earlier HoverStart(e) is not     *)
(* yet matched by a HoverEnd(e).                                           *)
(***************************************************************************)
LogCount(ev, n) == Cardinality({ i \in 1..n : log[i] = ev })

C3_HoverEndHasOpenStart ==
    \A j \in DOMAIN log :
        log[j].type = "HoverEnd"
            => LogCount(HoverStart(log[j].hovered), j - 1)
                   > LogCount(HoverEnd(log[j].hovered), j - 1)

\* a HoverEnd(e) has been sent, after the HoverStart(e) it ends
C3_Witness ==
    \E e \in Entity : \E i, j \in DOMAIN log :
        i < j /\ log[i] = HoverStart(e) /\ log[j] = HoverEnd(e)

(***************************************************************************)
(* C4: in a tick where e is hovered and the ray now hits a different       *)
(* entity e2 instead of e, HoverEnd(e) and HoverStart(e2) are both sent in *)
(* that tick, HoverEnd(e) not later than HoverStart(e2), and after the     *)
(* tick e2 is hovered and e is not.                                        *)
(***************************************************************************)
C4_TargetChange ==
    [][TickEnds =>
        \A e \in hover : \A e2 \in Hoverable \ hover :
            (Misses(ray, e) /\ Intersects(ray, e2))
                => /\ Sent(HoverEnd(e))
                   /\ Sent(HoverStart(e2))
                   /\ IndexOf(HoverEnd(e)) < IndexOf(HoverStart(e2))
                   /\ e2 \in hover'
                   /\ e \notin hover']_vars

(***************************************************************************)
(* C5: in every tick at most one HoverStart and at most one HoverEnd is    *)
(* sent.                                                                   *)
(***************************************************************************)
C5_AtMostOneOfEach == Count("HoverStart") <= 1 /\ Count("HoverEnd") <= 1

(***************************************************************************)
(* C6: when the ray meets two hoverable meshes at different distances,     *)
(* the entity that becomes hovered is the nearer one, whatever the order   *)
(* in which the query yields them.                                         *)
(***************************************************************************)
C6_NearestBecomesHovered ==
    [][TickEnds =>
        \A e1, e2 \in Hoverable :
            (Intersects(ray, e1) /\ Intersects(ray, e2) /\ Nearer(ray, e1, e2))
                => e2 \notin hover' \ hover]_vars

C8_HoverEnd ==
    [][(TickEnds /\ NothingHit(ray)) =>
          /\ \A e \in hover : CountOf(HoverEnd(e)) = 1
          /\ hover # {} => hover' = {}
          /\ hover = {} => TickEvents = << >>]_vars

(***************************************************************************)
(* C9: after any tick in which a release edge is delivered, also one that  *)
(* delivers the press and the release edge, no entity carries a drag       *)
(* record (so that later ticks no longer move it).                         *)
(***************************************************************************)
C9_ReleaseEndsDrag ==
    (phase = "idle" /\ mouse_button_input.just_released) => DOMAIN dragged = {}

(***************************************************************************)
(* C10: update_mouse_ray completes before the hover intersection checks,   *)
(* so the hover events of a tick are those of the tick's ray.              *)
(***************************************************************************)
C10_EventsOfTickRay ==
    /\ (phase = "update" /\ ran \cap {"update_hover_start", "update_hover_end"} # {})
           => "update_mouse_ray" \in ran
    /\ TickDone =>
           /\ \A e \in Entity :
                 Sent(HoverStart(e)) <=> (e \in Hoverable \ hover /\ Intersects(ray, e))
           /\ \A e \in Entity :
                 Sent(HoverEnd(e)) <=> (e \in hover /\ Misses(ray, e))

(***************************************************************************)
(* C11: at the end of every tick the stored ray is the ray of the camera's *)
(* current transform and the most recent cursor position, also in a tick   *)
(* in which the camera changed and no CursorMoved arrived.                 *)
(***************************************************************************)
C11_RayIsCurrent ==
    (phase = "idle" /\ camera_count = 1 /\ last_cursor # << >>)
        => ray = pos_from_camera(camera, cursor_to_pos(last_cursor[1], Window))

(***************************************************************************)
(* C12: when several CursorMoved events are read in one tick, the ray      *)
(* stored after the loop is the ray of the last of them, whatever the      *)
(* earlier events and the ray stored before.                               *)
(***************************************************************************)
C12_LastWins ==
    (Returned("FoldCursorMoved") /\ call.events # << >>)
        => result[1] = pos_from_camera(call.cam,
                           cursor_to_pos(call.events[Len(call.events)], Window))

\* the loop has run over three events, the last at another position than
\* the first two
C12_Witness ==
    /\ Returned("FoldCursorMoved")
    /\ Len(call.events) = 3
    /\ call.events[1] # call.events[3]
    /\ call.events[2] # call.events[3]

(***************************************************************************)
(* C13: no tick aborts the process: a CursorMoved that arrives while zero  *)
(* or several cameras exist, and a mesh with an index past the end of its  *)
(* positions, are no-ops for the tick.                                     *)
(***************************************************************************)
C13_NoAbort == phase # "aborted"

(***************************************************************************)
(* C14: a hoverable entity whose mesh data is unresolved in a tick (asset  *)
(* not loaded, no position attribute, no index buffer) is skipped: no      *)
(* HoverStart and no HoverEnd is sent for it and it stays hovered or not   *)
(* hovered as it was.                                                      *)
(***************************************************************************)
Unresolved(e) ==
    \/ e \notin loaded
    \/ ~mesh_assets[e].float32x3
    \/ mesh_assets[e].width = "None"

C14_UnresolvedSkipped ==
    [][TickEnds =>
        \A e \in Hoverable :
            Unresolved(e) => /\ ~Sent(HoverStart(e))
                             /\ ~Sent(HoverEnd(e))
                             /\ (e \in hover') <=> (e \in hover)]_vars

(***************************************************************************)
(* C15: while an entity is dragged and the ray is parallel to the          *)
(* horizontal drag plane (its direction has a zero y), the drag update     *)
(* leaves the entity's position unchanged, and no non-finite coordinate    *)
(* reaches it.                                                             *)
(***************************************************************************)
C15_ParallelRayLeavesPosition ==
    (Returned("drag_translation") /\ call.ray.direction.y = 0)
        => result[1] = call.translation

(***************************************************************************)
(* C16: while an entity is dragged and the ray is not parallel to the      *)
(* plane, after the drag update the entity's x and z are those of the      *)
(* point where the ray's line meets the plane y = start_pos.y.             *)
(***************************************************************************)
\* (x, plane_y, z) is on the line of the ray r
OnRayAtHeight(r, x, plane_y, z) ==
    /\ (x - r.origin.x) * r.direction.y = r.direction.x * (plane_y - r.origin.y)
    /\ (z - r.origin.z) * r.direction.y = r.direction.z * (plane_y - r.origin.y)

C16_DragFollowsRay ==
    (Returned("drag_translation") /\ call.ray.direction.y # 0)
        => /\ result[1].finite
           /\ OnRayAtHeight(call.ray, result[1].x, call.start_pos.y, result[1].z)

(***************************************************************************)
(* C17: moller_trumbore returns None for every ray and triangle for which  *)
(* a = dot(edge1, cross(ray_direction, edge2)) is strictly between         *)
(* -epsilon and epsilon: the ray's direction lies in the triangle's plane. *)
(***************************************************************************)
\* a of the call, in units of 1 / (DirDen * Unit^2)
CallA ==
    Dot(VSub(call.v1, call.v0), Cross(call.ray_direction, VSub(call.v2, call.v0)))

C17_ParallelIsNone ==
    (Returned("moller_trumbore") /\ -1 < CallA * EpsA /\ CallA * EpsA < 1)
        => result[1] = NoHit

\* a ray along +x whose line runs inside the plane of a proper triangle and
\* across it
C17_Witness ==
    /\ Returned("moller_trumbore")
    /\ call.ray_origin = Vec3(-2, 1, 0)
    /\ call.ray_direction = Vec3(DirDen, 0, 0)
    /\ << call.v0, call.v1, call.v2 >> = << Vec3(0, 0, 0), Vec3(4, 0, 0), Vec3(0, 4, 0) >>
    /\ CallA = 0

(***************************************************************************)
(* C18: moller_trumbore returns None for a ray that points away from a     *)
(* triangle whose plane the ray's line crosses inside the triangle         *)
(* (t <= epsilon); every distance t it returns is greater than epsilon and *)
(* is that of a point inside the triangle (u in [0, 1], v >= 0,            *)
(* u + v <= 1).                                                            *)
(***************************************************************************)
CallNormal == Cross(VSub(call.v1, call.v0), VSub(call.v2, call.v0))

\* the parameter at which the line of the call's ray crosses the plane of
\* its triangle, for a line that is not parallel to the plane
LineT ==
    Frac(Dot(VSub(call.v0, call.ray_origin), CallNormal),
         Dot(call.ray_direction, CallNormal))

\* t.d times the point of the ray's line at parameter t
PointAt(t) == VAdd(VScale(t.d, call.ray_origin), VScale(t.n, call.ray_direction))

\* the point p / d is on the inner side of the triangle's edge from a to b
InnerSide(p, d, a, b) ==
    Dot(Cross(VSub(b, a), VSub(p, VScale(d, a))), CallNormal) >= 0

\* the point of the line at parameter t is in the closed triangle
InTriangle(t) ==
    /\ Dot(VSub(PointAt(t), VScale(t.d, call.v0)), CallNormal) = 0
    /\ InnerSide(PointAt(t), t.d, call.v0, call.v1)
    /\ InnerSide(PointAt(t), t.d, call.v1, call.v2)
    /\ InnerSide(PointAt(t), t.d, call.v2, call.v0)

C18_ForwardHitsOnly ==
    Returned("moller_trumbore") =>
        /\ result[1].hit =>
              /\ GtEpsilon(result[1].t)
              /\ InTriangle(result[1].t)
        /\ (/\ Dot(call.ray_direction, CallNormal) # 0
            /\ ~GtEpsilon(LineT)
            /\ InTriangle(LineT)) => result[1] = NoHit

\* a ray below the triangle pointing down: its line crosses the triangle
\* behind the origin
C18_Witness ==
    /\ Returned("moller_trumbore")
    /\ call.ray_origin = Vec3(1, 1, -4)
    /\ call.ray_direction = Vec3(0, 0, 0 - DirDen)
    /\ Dot(call.ray_direction, CallNormal) # 0
    /\ LineT.n < 0
    /\ InTriangle(LineT)

(***************************************************************************)
(* C19: moller_trumbore returns, and returns None, for every degenerate    *)
(* triangle (two or three coincident vertices, three collinear vertices)   *)
(* and for a zero ray direction, whatever the ray's origin.                *)
(***************************************************************************)
Zero3 == Vec3(0, 0, 0)

\* two or three vertices coincide
Coincident == call.v0 = call.v1 \/ call.v1 = call.v2 \/ call.v0 = call.v2

\* the vertices are on one line: v2 - v0 = k * (v1 - v0) for some k
Collinear ==
    \E k \in -4..4 : VSub(call.v2, call.v0) = VScale(k, VSub(call.v1, call.v0))

C19_DegenerateIsNone ==
    (call.fn = "moller_trumbore" /\ (Coincident \/ Collinear \/ call.ray_direction = Zero3))
        => \/ result = << >> /\ ENABLED CallMollerTrumbore
           \/ result = << NoHit >>

\* a call has returned whose three distinct vertices are collinear and whose
\* ray runs through their line
C19_Witness ==
    /\ Returned("moller_trumbore")
    /\ ~Coincident
    /\ Collinear
    /\ call.ray_origin = Vec3(1, 1, 4)
    /\ call.ray_direction = Vec3(0, 0, 0 - DirDen)

(***************************************************************************)
(* C20: cursor_to_pos maps the pixel (x, y) of a width x height window to  *)
(* (x / width * 2 - 1, 1 - y / height * 2): the centre to (0, 0), the      *)
(* top-left pixel (0, 0) to (-1, 1), and every position inside the window  *)
(* into [-1, 1] x [-1, 1], with y flipped.                                 *)
(***************************************************************************)
FracEq(p, q) == p.n * q.d = q.n * p.d

FracLe(p, q) == ~FracLt(q, p)

C20_CursorToPos ==
    Returned("cursor_to_pos") =>
        LET x == call.position.x
            y == call.position.y
            w == call.window.width
            h == call.window.height
            pos == result[1]
        IN  /\ FracEq(pos.x, [n |-> 2 * x - w, d |-> w])
            /\ FracEq(pos.y, [n |-> h - 2 * y, d |-> h])
            /\ (2 * x = w /\ 2 * y = h) => (pos.x.n = 0 /\ pos.y.n = 0)
            /\ (x = 0 /\ y = 0) => (FracEq(pos.x, [n |-> -1, d |-> 1]) /\ FracEq(pos.y, FracOne))
            /\ (0 <= x /\ x <= w /\ 0 <= y /\ y <= h) =>
                  /\ FracLe([n |-> -1, d |-> 1], pos.x) /\ FracLe(pos.x, FracOne)
                  /\ FracLe([n |-> -1, d |-> 1], pos.y) /\ FracLe(pos.y, FracOne)
            /\ (2 * y < h) <=> FracLt(FracZero, pos.y)

\* a pixel in the upper left quarter of the wider window has been mapped
C20_Witness ==
    /\ Returned("cursor_to_pos")
    /\ call.window.width # call.window.height
    /\ 0 < call.position.x /\ 2 * call.position.x < call.window.width
    /\ 0 < call.position.y /\ 2 * call.position.y < call.window.height

(***************************************************************************)
(* C21: the drag update never changes the y of a dragged entity: as long   *)
(* as an entity carries its drag record, its height is the height it had   *)
(* when the record was taken.                                              *)
(***************************************************************************)
C21_DragKeepsHeight ==
    /\ \A e \in DOMAIN dragged : transform[e].y = dragged[e].y
    /\ \A e \in Entity : transform[e].y = InitTranslation[e].y

\* a dragged entity has been moved away from where it was picked up
C21_Witness ==
    \E e \in DOMAIN dragged :
        /\ transform[e].finite
        /\ transform[e].x # dragged[e].x

(***************************************************************************)
(* C22: the start position of a drag is captured only when the entity goes *)
(* from not dragged to dragged: a press edge processed while the entity    *)
(* already carries a drag record (in a tick without a release edge) does   *)
(* not overwrite the recorded start position.                              *)
(***************************************************************************)
C22_StartCapturedOnce ==
    [][(/\ TickEnds
        /\ mouse_button_input.just_pressed
        /\ ~mouse_button_input.just_released)
          => \A e \in DOMAIN dragged :
                e \in DOMAIN dragged' /\ dragged'[e] = dragged[e]]_vars

(***************************************************************************)
(* C23: in one tick an entity receives at most one hover event:            *)
(* HoverStart(e) and HoverEnd(e) are never both sent in the same tick,     *)
(* whatever the order of update_hover_start and update_hover_end; and at   *)
(* the start of a tick an entity carries Hover exactly when its most       *)
(* recent hover event is a HoverStart.                                     *)
(***************************************************************************)
\* the positions in the log of the events of the entity e
EventsOf(e) == { i \in DOMAIN log : log[i].hovered = e }

\* the most recent event of e is a HoverStart
LastIsStart(e) ==
    \E i \in EventsOf(e) :
        /\ log[i].type = "HoverStart"
        /\ \A j \in EventsOf(e) : j <= i

C23_OneEventPerTick ==
    /\ \A e \in Entity :
          Cardinality({ i \in DOMAIN TickEvents : TickEvents[i].hovered = e }) <= 1
    /\ phase = "idle" => \A e \in Entity : (e \in hover) <=> LastIsStart(e)

\* a tick has ended in which update_hover_end sent an event before
\* update_hover_start sent one, an entity being hovered again and another
\* no longer
C23_Witness ==
    /\ phase = "idle"
    /\ Len(TickEvents) >= 2
    /\ TickEvents[1].type = "HoverEnd"
    /\ TickEvents[Len(TickEvents)].type = "HoverStart"
    /\ \E e \in Entity \ hover : EventsOf(e) # {}
    /\ hover # {}

(***************************************************************************)
(* C24: until the first CursorMoved has been processed the stored ray is   *)
(* the default ray, of zero direction, so no HoverStart is sent and no     *)
(* entity becomes hovered, whatever hoverable meshes exist.                *)
(***************************************************************************)
C24_NoHoverBeforeCursor ==
    last_cursor = << >> =>
        /\ ray = DefaultRay
        /\ ray.direction = Vec3(0, 0, 0)
        /\ \A i \in DOMAIN log : log[i].type # "HoverStart"
        /\ commands.insert_hover = {}
        /\ hover = {}

\* a tick has ended in which no CursorMoved has yet arrived, one camera
\* exists and every mesh is loaded, with its positions and indices
C24_Witness ==
    /\ phase = "idle"
    /\ tick >= 1
    /\ last_cursor = << >>
    /\ camera_count = 1
    /\ loaded = Entity
    /\ mesh_assets = MeshOf

====
